---- MODULE Spec2Model ----
(***************************************************************************)
(* Model of the recruiting pipeline: process_data.py (roster consolidation, *)
(* filtering, recency classification, ranking, schedule enrichment,        *)
(* publishing) and process_hs_schedule.py (schedule preprocessing).        *)
(*                                                                         *)
(* Strings are sequences of one-character strings, so that trimming, case  *)
(* folding, splitting and pattern matching are computed, not assumed.      *)
(***************************************************************************)
EXTENDS Integers, Sequences, FiniteSets, TLC

VARIABLES
  pc,        \* position of the running program or call
  args,      \* arguments of a call of one function on its own
  ret,       \* what that call returned
  fs,        \* the files under data/
  env,       \* the clock and the outcome of the git commands
  df,        \* main's data frame
  df_top,    \* main's df_top
  col_map,   \* main's col_map
  publish    \* how far the publishing step got

vars == <<pc, args, ret, fs, env, df, df_top, col_map, publish>>

mainvars == <<fs, env, df, df_top, col_map, publish>>

----------------------------------------------------------------------------
(* Strings *)

UpperCs == <<"A","B","C","D","E","F","G","H","I","J","K","L","M",
             "N","O","P","Q","R","S","T","U","V","W","X","Y","Z">>
LowerCs == <<"a","b","c","d","e","f","g","h","i","j","k","l","m",
             "n","o","p","q","r","s","t","u","v","w","x","y","z">>

Whitespace == {" ", "\t", "\n"}

Digits == <<"0","1","2","3","4","5","6","7","8","9">>

SetMin(S) == CHOOSE x \in S : \A y \in S : x <= y
SetMax(S) == CHOOSE x \in S : \A y \in S : x >= y

\* str.lower() on one character
LowerChar(c) ==
  IF \E i \in 1..26 : UpperCs[i] = c
  THEN LowerCs[CHOOSE i \in 1..26 : UpperCs[i] = c]
  ELSE c

\* str.lower()
Lower(s) == [i \in 1..Len(s) |-> LowerChar(s[i])]

\* str.strip(): drops leading and trailing whitespace
Strip(s) ==
  LET keep == {i \in 1..Len(s) : s[i] \notin Whitespace}
  IN IF keep = {} THEN <<>> ELSE SubSeq(s, SetMin(keep), SetMax(keep))

\* _normalize_str(x) = str(x).strip()
NormalizeStr(x) == Strip(x)

\* Python's `sub in s`
IsSubstring(sub, s) ==
  \E k \in 0..(Len(s) - Len(sub)) :
     \A i \in 1..Len(sub) : s[k + i] = sub[i]

\* str.endswith
EndsWith(s, suf) ==
  /\ Len(suf) <= Len(s)
  /\ SubSeq(s, Len(s) - Len(suf) + 1, Len(s)) = suf

\* pandas Series.str.contains(pat, case=False, na=False): regex defaults to
\* True, so pat is a regular expression searched with re.IGNORECASE.  The
\* patterns of the model are built from letters, digits, blanks and ".", for
\* which the search is: some offset where every pattern character matches,
\* "." matching any character but a newline.
StrContains(s, pat) ==
  \E k \in 0..(Len(s) - Len(pat)) :
     \A i \in 1..Len(pat) :
        IF pat[i] = "." THEN s[k + i] # "\n"
        ELSE LowerChar(s[k + i]) = LowerChar(pat[i])

\* str.split(sep) for a non-empty separator
RECURSIVE SplitOn(_, _)
SplitOn(s, sep) ==
  LET hits == {k \in 1..(Len(s) - Len(sep) + 1) : SubSeq(s, k, k + Len(sep) - 1) = sep}
  IN IF hits = {} THEN <<s>>
     ELSE LET k == SetMin(hits)
          IN <<SubSeq(s, 1, k - 1)>> \o SplitOn(SubSeq(s, k + Len(sep), Len(s)), sep)

\* sep.join(items)
RECURSIVE Join(_, _)
Join(items, sep) ==
  IF Len(items) = 0 THEN <<>>
  ELSE IF Len(items) = 1 THEN items[1]
  ELSE items[1] \o sep \o Join(Tail(items), sep)

\* str.rstrip()
RStrip(s) ==
  LET keep == {i \in 1..Len(s) : s[i] \notin Whitespace}
  IN IF keep = {} THEN <<>> ELSE SubSeq(s, 1, SetMax(keep))

----------------------------------------------------------------------------
(* Data frames: an ordered list of column names and an ordered list of     *)
(* rows, each row a function from the column names to strings.             *)

HasColumn(frame, col) == \E i \in 1..Len(frame.columns) : frame.columns[i] = col

\* frame[m]: the rows whose mask entry is true, in order
RECURSIVE MaskRows(_, _, _)
MaskRows(rows, m, i) ==
  IF i > Len(rows) THEN <<>>
  ELSE (IF m[i] THEN <<rows[i]>> ELSE <<>>) \o MaskRows(rows, m, i + 1)

SelectMask(frame, m) == [frame EXCEPT !.rows = MaskRows(frame.rows, m, 1)]

----------------------------------------------------------------------------
(* apply_filters *)

s_eq       == <<"e","q">>
s_ne       == <<"n","e">>
s_contains == <<"c","o","n","t","a","i","n","s">>
s_notnull  == <<"n","o","t","n","u","l","l">>
s_null     == <<"n","u","l","l">>

\* for op, val in cond.items(): one pass of the if/elif chain per entry; the
\* else branch raises ValueError and ends the call.
RECURSIVE CondLoop(_, _, _, _)
CondLoop(cond, k, s, m) ==
  IF k > Len(cond) THEN [raised |-> FALSE, m |-> m]
  ELSE
    LET op  == Lower(cond[k][1])
        val == cond[k][2]
    IN IF op = s_eq THEN
         CondLoop(cond, k + 1, s,
                  [i \in 1..Len(m) |-> m[i] /\ Lower(s[i]) = Lower(val)])
       ELSE IF op = s_ne THEN
         CondLoop(cond, k + 1, s,
                  [i \in 1..Len(m) |-> m[i] /\ Lower(s[i]) # Lower(val)])
       ELSE IF op = s_contains THEN
         CondLoop(cond, k + 1, s,
                  [i \in 1..Len(m) |-> m[i] /\ StrContains(s[i], val)])
       ELSE IF op = s_notnull THEN
         CondLoop(cond, k + 1, s,
                  [i \in 1..Len(m) |-> m[i] /\ Len(s[i]) > 0])
       ELSE IF op = s_null THEN
         CondLoop(cond, k + 1, s,
                  [i \in 1..Len(m) |-> m[i] /\ Len(s[i]) = 0])
       ELSE [raised |-> TRUE, m |-> m]

\* for col, cond in rules.items(): a column the frame lacks clears the mask
\* and skips the rule's conditions (continue).
RECURSIVE RuleLoop(_, _, _, _)
RuleLoop(frame, rules, j, m) ==
  IF j > Len(rules) THEN [raised |-> FALSE, m |-> m]
  ELSE
    LET col  == rules[j][1]
        cond == rules[j][2]
    IN IF ~HasColumn(frame, col) THEN
         RuleLoop(frame, rules, j + 1, [i \in 1..Len(m) |-> FALSE])
       ELSE
         LET s == [i \in 1..Len(frame.rows) |-> NormalizeStr(frame.rows[i][col])]
             r == CondLoop(cond, 1, s, m)
         IN IF r.raised THEN r ELSE RuleLoop(frame, rules, j + 1, r.m)

\* apply_filters(frame, rules): the frame itself for an empty rule set, else the
\* rows the mask keeps; ValueError when an operator is not supported.
apply_filters(frame, rules) ==
  IF Len(rules) = 0 THEN [raised |-> FALSE, df |-> frame]
  ELSE
    LET r == RuleLoop(frame, rules, 1, [i \in 1..Len(frame.rows) |-> TRUE])
    IN IF r.raised THEN [raised |-> TRUE, df |-> [columns |-> <<>>, rows |-> <<>>]]
       ELSE [raised |-> FALSE, df |-> SelectMask(frame, r.m)]

----------------------------------------------------------------------------
(* Timestamps.  Time is counted in ticks, TicksPerDay to the UTC day; day   *)
(* numbers count from 1800-01-01.  A timestamp text is a day number in     *)
(* decimal, optionally followed by "T" and the tick within the day; it      *)
(* stands for the date and date-time texts pandas parses.                   *)

TicksPerDay == 2

NaT == [nat |-> TRUE, t |-> 0]
Timestamp(t) == [nat |-> FALSE, t |-> t]

\* the None that Series.replace({"": None}) puts in place of an empty string
NoneVal == <<"None">>

IsDigit(c) == \E i \in 1..10 : Digits[i] = c
DigitVal(c) == (CHOOSE i \in 1..10 : Digits[i] = c) - 1
AllDigits(s) == Len(s) > 0 /\ \A i \in 1..Len(s) : IsDigit(s[i])

RECURSIVE NatVal(_)
NatVal(s) ==
  IF Len(s) = 0 THEN 0
  ELSE 10 * NatVal(SubSeq(s, 1, Len(s) - 1)) + DigitVal(s[Len(s)])

\* str(n) for a natural number
RECURSIVE NatStr(_)
NatStr(n) ==
  IF n < 10 THEN <<Digits[n + 1]>>
  ELSE Append(NatStr(n \div 10), Digits[(n % 10) + 1])

\* pd.to_datetime(x, errors="coerce", utc=True) on one value: a missing value
\* and a text that is no timestamp both give NaT, nothing raises
to_datetime(v) ==
  IF v = NoneVal THEN NaT
  ELSE
    LET seps == {i \in 1..Len(v) : v[i] = "T"}
    IN IF seps = {} THEN
         (IF AllDigits(v) THEN Timestamp(NatVal(v) * TicksPerDay) ELSE NaT)
       ELSE
         LET k == SetMin(seps)
             d == SubSeq(v, 1, k - 1)
             h == SubSeq(v, k + 1, Len(v))
         IN IF AllDigits(d) /\ AllDigits(h) /\ NatVal(h) < TicksPerDay
            THEN Timestamp(NatVal(d) * TicksPerDay + NatVal(h))
            ELSE NaT

\* Timestamp.normalize(): midnight of the same UTC day
Normalize(t) == t - (t % TicksPerDay)

----------------------------------------------------------------------------
(* add_recency_bucket *)

RecentDays == 365

c_called_dt       == <<"c","a","l","l","e","d","_","d","t">>
c_called_distance == <<"c","a","l","l","e","d","_","d","i","s","t","a","n","c","e">>

\* frame[name] = values: the column is appended when new, overwritten otherwise
RowWith(row, name, v) ==
  [c \in DOMAIN row \cup {name} |-> IF c = name THEN v ELSE row[c]]

AssignColumn(frame, name, values) ==
  [columns |-> IF HasColumn(frame, name) THEN frame.columns ELSE Append(frame.columns, name),
   rows    |-> [i \in 1..Len(frame.rows) |-> RowWith(frame.rows[i], name, values[i])]]

\* the comparison with the boundary left out
GeCutoff_strict(dt, cutoff) == ~dt.nat /\ dt.t > cutoff

\* dt >= cutoff, elementwise: a comparison with NaT is False
GeCutoff(dt, cutoff) == ~dt.nat /\ dt.t >= cutoff

\* add_recency_bucket(frame, date_col, prefix="called", recent_days) at the
\* instant `now`
add_recency_bucket(frame, date_col, recent_days, now) ==
  LET n      == Len(frame.rows)
      dt     == [i \in 1..n |->
                   to_datetime(IF frame.rows[i][date_col] = <<>> THEN NoneVal
                               ELSE frame.rows[i][date_col])]
      today  == Normalize(now)
      cutoff == today - recent_days * TicksPerDay
      dist0  == [i \in 1..n |-> "far"]
      dist1  == [i \in 1..n |-> IF dt[i].nat THEN "never" ELSE dist0[i]]
      dist2  == [i \in 1..n |-> IF GeCutoff(dt[i], cutoff) THEN "recent" ELSE dist1[i]]
  IN AssignColumn(AssignColumn(frame, c_called_dt, dt), c_called_distance, dist2)

----------------------------------------------------------------------------
(* sort_by_last_contacted and the selection of the first TOP_N *)

TOP_N == 5

\* pd.Timestamp("1900-01-01", tz="UTC") as a day number
SentinelDay == 36524

\* called_dt.fillna(sentinel)
SortKey(row) ==
  IF row[c_called_dt].nat THEN SentinelDay * TicksPerDay ELSE row[c_called_dt].t

\* The orders sort_values may return: ascending by key.  The default kind is
\* quicksort, which is not stable, so rows with equal keys come in any order.
RECURSIVE OrdersFrom(_, _)
OrdersFrom(keys, remaining) ==
  IF remaining = {} THEN {<<>>}
  ELSE
    LET least  == SetMin({keys[i] : i \in remaining})
        firsts == {i \in remaining : keys[i] = least}
    IN UNION { {<<i>> \o o : o \in OrdersFrom(keys, remaining \ {i})} : i \in firsts }

\* sort_by_last_contacted(df): the set of frames the call may return
sort_by_last_contacted(frame) ==
  LET n    == Len(frame.rows)
      keys == [i \in 1..n |-> SortKey(frame.rows[i])]
  IN { [frame EXCEPT !.rows = [i \in 1..n |-> frame.rows[o[i]]]] :
         o \in OrdersFrom(keys, 1..n) }

\* df.head(n)
HeadRows(frame, n) ==
  [frame EXCEPT !.rows = SubSeq(frame.rows, 1, IF Len(frame.rows) < n THEN Len(frame.rows) ELSE n)]

----------------------------------------------------------------------------
(* The csv module: one record per line, fields quoted when they must be *)

Quote == "\""

\* field.replace('"', '""')
DoubleQuotes(s) == Join(SplitOn(s, <<Quote>>), <<Quote, Quote>>)

\* csv.writer with QUOTE_MINIMAL: a field holding the delimiter, the quote
\* character or a line break is quoted
CsvField(s) ==
  IF \E i \in 1..Len(s) : s[i] \in {",", Quote, "\n", "\r"}
  THEN <<Quote>> \o DoubleQuotes(s) \o <<Quote>>
  ELSE s

CsvLine(fields) == Join([i \in 1..Len(fields) |-> CsvField(fields[i])], <<",">>)

\* the text of a quoted field: of every pair of quote characters the
\* second is dropped
UnDoubleQuotes(s) ==
  LET keep == {k \in 1..Len(s) :
                 ~(s[k] = Quote /\ Cardinality({m \in 1..k : s[m] = Quote}) % 2 = 0)}
  IN [i \in 1..Cardinality(keep) |->
        s[CHOOSE k \in keep : Cardinality({m \in keep : m <= k}) = i]]

\* csv.reader on the rest of a line, field by field: a field that starts
\* with a quote character runs to its closing quote, any other to the next
\* delimiter
RECURSIVE CsvParse(_)
CsvParse(rest) ==
  IF Len(rest) > 0 /\ rest[1] = Quote THEN
    LET ends == {j \in 2..Len(rest) :
                   /\ rest[j] = Quote
                   /\ Cardinality({m \in 2..j : rest[m] = Quote}) % 2 = 1
                   /\ (j = Len(rest) \/ rest[j + 1] # Quote)}
        j == IF ends = {} THEN Len(rest) + 1 ELSE SetMin(ends)
        commas == {k \in (j + 1)..Len(rest) : rest[k] = ","}
        stop == IF commas = {} THEN Len(rest) + 1 ELSE SetMin(commas)
        field == UnDoubleQuotes(SubSeq(rest, 2, j - 1)) \o SubSeq(rest, j + 1, stop - 1)
    IN IF stop > Len(rest) THEN <<field>>
       ELSE <<field>> \o CsvParse(SubSeq(rest, stop + 1, Len(rest)))
  ELSE
    LET commas == {k \in 1..Len(rest) : rest[k] = ","}
    IN IF commas = {} THEN <<rest>>
       ELSE <<SubSeq(rest, 1, SetMin(commas) - 1)>>
              \o CsvParse(SubSeq(rest, SetMin(commas) + 1, Len(rest)))

CsvFields(line) == CsvParse(line)

\* csv.DictReader: the first line names the fields of the lines after it
DictRows(lines) ==
  IF Len(lines) = 0 THEN <<>>
  ELSE
    LET names == CsvFields(lines[1])
    IN [g \in 1..(Len(lines) - 1) |->
          LET vals == CsvFields(lines[g + 1])
          IN [n \in {names[k] : k \in 1..Len(names)} |->
                vals[CHOOSE k \in 1..Len(names) : names[k] = n]]]

----------------------------------------------------------------------------
(* process_hs_schedule.py *)

s_KEEP_YEAR == <<"(","2","0","2","7",")">>

\* the end of s once its trailing whitespace is dropped is "(" four digits ")"
EndsWithYearTag(s) ==
  LET t == RStrip(s)
      n == Len(t)
  IN /\ n >= 6
     /\ t[n - 5] = "("
     /\ \A i \in (n - 4)..(n - 1) : IsDigit(t[i])
     /\ t[n] = ")"

\* re.search(r"\(\d{4}\)\s*$", buf)
HasYearTag(buf) == EndsWithYearTag(buf)

\* the loop over parts: a fragment joins the buffer, and the buffer is
\* emitted once it ends with a year tag
RECURSIVE RejoinLoop(_, _, _, _)
RejoinLoop(parts, i, buf, recruits) ==
  IF i > Len(parts) THEN [buf |-> buf, recruits |-> recruits]
  ELSE
    LET b == IF Len(buf) > 0 THEN buf \o <<",", " ">> \o parts[i] ELSE parts[i]
    IN IF HasYearTag(b)
       THEN RejoinLoop(parts, i + 1, <<>>, Append(recruits, Strip(b)))
       ELSE RejoinLoop(parts, i + 1, b, recruits)

\* the local list `recruits` of split_recruits before the year filter
\* (empty when the function returns early on a blank text)
Rejoin(raw) ==
  IF Len(Strip(raw)) = 0 THEN <<>>
  ELSE
    LET split == SplitOn(raw, <<",">>)
        parts == [i \in 1..Len(split) |-> Strip(split[i])]
        r     == RejoinLoop(parts, 1, <<>>, <<>>)
    IN IF Len(Strip(r.buf)) > 0 THEN Append(r.recruits, Strip(r.buf)) ELSE r.recruits

\* the list returned without the year filter
KeepYear_all(recruits) == recruits

\* [r for r in recruits if r.strip().endswith(KEEP_YEAR)]
RECURSIVE KeepYear(_)
KeepYear(recruits) ==
  IF Len(recruits) = 0 THEN <<>>
  ELSE (IF EndsWith(Strip(Head(recruits)), s_KEEP_YEAR) THEN <<Head(recruits)>> ELSE <<>>)
         \o KeepYear(Tail(recruits))

split_recruits(raw) == KeepYear(Rejoin(raw))

s_vs == <<" ","v","s"," ">>

tz_NewYork    == <<"A","m","e","r","i","c","a","/","N","e","w","_","Y","o","r","k">>
tz_Chicago    == <<"A","m","e","r","i","c","a","/","C","h","i","c","a","g","o">>
tz_LosAngeles == <<"A","m","e","r","i","c","a","/","L","o","s","_","A","n","g","e","l","e","s">>

h_Date_NY           == <<"D","a","t","e","_","N","Y">>
h_Original_Timezone == <<"O","r","i","g","i","n","a","l","_","T","i","m","e","z","o","n","e">>
h_School_1          == <<"S","c","h","o","o","l","_","1">>
h_School_2          == <<"S","c","h","o","o","l","_","2">>
h_Recruits_2027     == <<"R","e","c","r","u","i","t","s","_","2","0","2","7">>

\* convert_to_ny.  A date text is a day number and a time text an hour of
\* the day, both in decimal; they stand for the "%m/%d/%y" and "%I:%M %p"
\* texts of the schedule.  A text that does not parse, or a zone that is not
\* known, raises.
ConvertRaises(date_str, time_str, tz_str) ==
  \/ ~AllDigits(date_str)
  \/ ~AllDigits(time_str)
  \/ NatVal(time_str) >= 24
  \/ tz_str \notin {tz_NewYork, tz_Chicago, tz_LosAngeles}

convert_to_ny(date_str, time_str, tz_str) ==
  LET ahead == IF tz_str = tz_Chicago THEN 1 ELSE IF tz_str = tz_LosAngeles THEN 3 ELSE 0
      h     == NatVal(date_str) * 24 + NatVal(time_str) + ahead
  IN NatStr(h \div 24) \o <<" ">> \o NatStr(h % 24) \o <<" ","E","S","T">>

\* the row main appends for one row of the input schedule
ProcessedRow(row) ==
  LET name   == Strip(row.Name)
      halves == SplitOn(name, s_vs)
      school_1 == IF Len(halves) > 1 THEN halves[1] ELSE name
      school_2 == IF Len(halves) > 1 THEN Join(Tail(halves), s_vs) ELSE <<>>
  IN << convert_to_ny(Strip(row.Date), Strip(row.Time), Strip(row.Timezone)),
        Strip(row.Timezone),
        Strip(school_1),
        Strip(school_2),
        Join(split_recruits(row.Recruits), <<",", " ">>) >>

\* main of process_hs_schedule.py: the lines of the processed schedule, or
\* an exception before the output is opened
hs_main(rows) ==
  IF \E i \in 1..Len(rows) :
        ConvertRaises(Strip(rows[i].Date), Strip(rows[i].Time), Strip(rows[i].Timezone))
  THEN [raised |-> TRUE, lines |-> <<>>]
  ELSE [raised |-> FALSE,
        lines  |-> <<CsvLine(<<h_Date_NY, h_Original_Timezone, h_School_1,
                               h_School_2, h_Recruits_2027>>)>>
                     \o [i \in 1..Len(rows) |-> CsvLine(ProcessedRow(rows[i]))]]

----------------------------------------------------------------------------
(* process_data.py: configuration *)

c_FirstName == <<"F","i","r","s","t"," ","N","a","m","e">>
c_LastName == <<"L","a","s","t"," ","N","a","m","e">>
c_FullName == <<"F","u","l","l"," ","N","a","m","e">>
c_MothersFirstName == <<"M","o","t","h","e","r","'","s"," ","F","i","r","s","t"," ","N","a","m","e">>
c_MothersLastName == <<"M","o","t","h","e","r","'","s"," ","L","a","s","t"," ","N","a","m","e">>
c_MothersFullName == <<"M","o","t","h","e","r","'","s"," ","F","u","l","l"," ","N","a","m","e">>
c_FathersFirstName == <<"F","a","t","h","e","r","'","s"," ","F","i","r","s","t"," ","N","a","m","e">>
c_FathersLastName == <<"F","a","t","h","e","r","'","s"," ","L","a","s","t"," ","N","a","m","e">>
c_FathersFullName == <<"F","a","t","h","e","r","'","s"," ","F","u","l","l"," ","N","a","m","e">>
c_PG1Name == <<"P","a","r","e","n","t","/","G","u","a","r","d","i","a","n"," ","1"," ","N","a","m","e">>
c_PG1Phone == <<"P","a","r","e","n","t","/","G","u","a","r","d","i","a","n"," ","1"," ","P","h","o","n","e">>
c_PG2Name == <<"P","a","r","e","n","t","/","G","u","a","r","d","i","a","n"," ","2"," ","N","a","m","e">>
c_PG2Phone == <<"P","a","r","e","n","t","/","G","u","a","r","d","i","a","n"," ","2"," ","P","h","o","n","e">>
c_MothersMobilePhone == <<"M","o","t","h","e","r","'","s"," ","M","o","b","i","l","e"," ","P","h","o","n","e">>
c_FathersMobilePhone == <<"F","a","t","h","e","r","'","s"," ","M","o","b","i","l","e"," ","P","h","o","n","e">>
c_MobilePhone == <<"M","o","b","i","l","e"," ","P","h","o","n","e">>
c_ContactSheetColor == <<"C","o","n","t","a","c","t"," ","S","h","e","e","t"," ","C","o","l","o","r">>
c_LastCalled == <<"L","a","s","t"," ","C","a","l","l","e","d">>
c_LastCallWith == <<"L","a","s","t"," ","C","a","l","l"," ","W","i","t","h">>
c_BoardPosition == <<"B","o","a","r","d"," ","P","o","s","i","t","i","o","n">>
c_State == <<"S","t","a","t","e">>
c_HasTranscript == <<"H","a","s"," ","T","r","a","n","s","c","r","i","p","t">>
c_LastEvaluation == <<"L","a","s","t"," ","E","v","a","l","u","a","t","i","o","n">>
c_MothersEmail == <<"M","o","t","h","e","r","'","s"," ","E","m","a","i","l">>
c_FathersEmail == <<"F","a","t","h","e","r","'","s"," ","E","m","a","i","l">>
c_HSName == <<"H","S"," ","N","a","m","e">>
c_HSPhone == <<"H","S"," ","P","h","o","n","e">>
s_Navy == <<"N","a","v","y">>
s_ColumbiaBlue == <<"C","o","l","u","m","b","i","a"," ","B","l","u","e">>
s_Anthracite == <<"A","n","t","h","r","a","c","i","t","e">>
s_contact_sheet_color == <<"c","o","n","t","a","c","t"," ","s","h","e","e","t"," ","c","o","l","o","r">>
s_call == <<"c","a","l","l">>
s_last == <<"l","a","s","t">>
s_with == <<"w","i","t","h">>
s_alexandra_bassetti == <<"a","l","e","x","a","n","d","r","a"," ","b","a","s","s","e","t","t","i">>
s_Kizmahr_Grell == <<"K","i","z","m","a","h","r"," ","G","r","e","l","l">>
s_True == <<"T","r","u","e">>

FILTERS == << <<c_MobilePhone, << <<s_notnull, s_True>> >> >> >>

MONTH_TO_COLOR ==
  [m \in 1..12 |->
     IF m % 3 = 1 THEN s_Navy ELSE IF m % 3 = 2 THEN s_ColumbiaBlue ELSE s_Anthracite]

NAME_PAIRS ==
  << <<c_FirstName, c_LastName, c_FullName>>,
     <<c_MothersFirstName, c_MothersLastName, c_MothersFullName>>,
     <<c_FathersFirstName, c_FathersLastName, c_FathersFullName>> >>

EXCLUDE_CALLERS == {s_alexandra_bassetti, s_Kizmahr_Grell}

----------------------------------------------------------------------------
(* process_data.py, main: loading and consolidation *)

\* a value that is None or an empty string is falsy
Truthy(x) == x # NoneVal /\ Len(x) > 0

\* col_map.get(name.lower()) with col_map = {c.lower(): c for c in columns}:
\* of two columns with the same lower-case name the later one is kept
ColMapGet(cm, name) ==
  LET hits == {i \in 1..Len(cm) : Lower(cm[i]) = Lower(name)}
  IN IF hits = {} THEN NoneVal ELSE cm[SetMax(hits)]

\* next((c for c in columns if P(c)), None)
FirstColumn(columns, matching) ==
  LET hits == {i \in 1..Len(columns) : columns[i] \in matching}
  IN IF hits = {} THEN NoneVal ELSE columns[SetMin(hits)]

\* df.drop(columns=names)
RECURSIVE FilterSeq(_, _)
FilterSeq(s, drop) ==
  IF Len(s) = 0 THEN <<>>
  ELSE (IF Head(s) \in drop THEN <<>> ELSE <<Head(s)>>) \o FilterSeq(Tail(s), drop)

DropColumns(frame, names) ==
  [columns |-> FilterSeq(frame.columns, names),
   rows    |-> [i \in 1..Len(frame.rows) |->
                  [c \in (DOMAIN frame.rows[i]) \ names |-> frame.rows[i][c]]]]

\* pd.read_csv(raw_csv, dtype=str, keep_default_na=False) and the trimming
\* of the column names
ReadExport(file) ==
  LET cols == [k \in 1..Len(file.header) |-> Strip(file.header[k])]
  IN [columns |-> cols,
      rows    |-> [i \in 1..Len(file.records) |->
                     [c \in {cols[k] : k \in 1..Len(cols)} |->
                        file.records[i][CHOOSE k \in 1..Len(cols) : cols[k] = c]]]]

\* one pass of the loop over NAME_PAIRS
MergePair(frame, cm, pair) ==
  LET fc == ColMapGet(cm, pair[1])
      lc == ColMapGet(cm, pair[2])
  IN IF Truthy(fc) /\ Truthy(lc)
     THEN DropColumns(
            AssignColumn(frame, pair[3],
               [i \in 1..Len(frame.rows) |->
                  Strip(Strip(frame.rows[i][fc]) \o <<" ">> \o Strip(frame.rows[i][lc]))]),
            {fc, lc})
     ELSE frame

MergeNamePairs(frame, cm) ==
  MergePair(MergePair(MergePair(frame, cm, NAME_PAIRS[1]), cm, NAME_PAIRS[2]),
            cm, NAME_PAIRS[3])

\* df.loc[mask, target] = df.loc[mask, source].str.strip()
FillWhere(frame, mask, target, source) ==
  [frame EXCEPT !.rows =
     [i \in 1..Len(frame.rows) |->
        IF mask[i] THEN [frame.rows[i] EXCEPT ![target] = Strip(frame.rows[i][source])]
        ELSE frame.rows[i]]]

\* one guardian slot: where the full name is blank, the guardian's name
\* replaces it and, when both phone columns resolve, the guardian's phone
\* replaces the parent's phone
FallbackSlot(frame, full_name, pg_name, parent_phone, pg_phone) ==
  LET empty  == [i \in 1..Len(frame.rows) |-> Strip(frame.rows[i][full_name]) = <<>>]
      named  == FillWhere(frame, empty, full_name, pg_name)
  IN IF Truthy(parent_phone) /\ Truthy(pg_phone)
     THEN FillWhere(named, empty, parent_phone, pg_phone)
     ELSE named

\* the parent/guardian consolidation of main
ConsolidateGuardians(frame, cm) ==
  LET pg1_name  == ColMapGet(cm, c_PG1Name)
      pg1_phone == ColMapGet(cm, c_PG1Phone)
      pg2_name  == ColMapGet(cm, c_PG2Name)
      pg2_phone == ColMapGet(cm, c_PG2Phone)
      mom_phone == ColMapGet(cm, c_MothersMobilePhone)
      dad_phone == ColMapGet(cm, c_FathersMobilePhone)
      mom == IF HasColumn(frame, c_MothersFullName)
             THEN FallbackSlot(frame, c_MothersFullName, pg1_name, mom_phone, pg1_phone)
             ELSE frame
      dad == IF HasColumn(mom, c_FathersFullName) /\ Truthy(pg2_name)
             THEN FallbackSlot(mom, c_FathersFullName, pg2_name, dad_phone, pg2_phone)
             ELSE mom
  IN IF Truthy(pg1_name)
     THEN DropColumns(dad, {c \in {pg1_name, pg1_phone, pg2_name, pg2_phone} : Truthy(c)})
     ELSE frame

----------------------------------------------------------------------------
(* process_data.py, main: schedule enrichment *)

ColorNames == {s_Navy, s_ColumbiaBlue, s_Anthracite}

\* name_to_color.get(name): the dict is filled row by row, so the last row
\* with that name and a non-blank color decides
NameToColorGet(frame, color_col, name) ==
  LET hits == {i \in 1..Len(frame.rows) :
                 /\ Lower(Strip(frame.rows[i][c_FullName])) = name
                 /\ Len(Strip(frame.rows[i][c_FullName])) > 0
                 /\ Len(Strip(frame.rows[i][color_col])) > 0}
  IN IF hits = {} THEN NoneVal ELSE Strip(frame.rows[SetMax(hits)][color_col])

\* re.sub(r"\s*\(\d{4}\)\s*$", "", recruit)
StripYearTag(recruit) ==
  IF EndsWithYearTag(recruit)
  THEN RStrip(SubSeq(recruit, 1, Len(RStrip(recruit)) - 6))
  ELSE recruit

\* the entries the enricher reads in a Recruits_2027 cell: raw.split(", ")
\* when raw is not empty
EnricherEntries(raw) ==
  IF Len(raw) = 0 THEN <<>> ELSE SplitOn(raw, <<",", " ">>)

\* for recruit in raw.split(", "): count the color of a recruit the roster
\* knows and keep the recruit's text
RECURSIVE CountLoop(_, _, _, _, _, _)
CountLoop(frame, color_col, entries, k, counts, matched) ==
  IF k > Len(entries) THEN [counts |-> counts, matched |-> matched]
  ELSE
    LET recruit == entries[k]
        clean   == Lower(Strip(StripYearTag(recruit)))
        c       == NameToColorGet(frame, color_col, clean)
    IN IF Truthy(c) /\ c \in ColorNames
       THEN CountLoop(frame, color_col, entries, k + 1,
                      [counts EXCEPT ![c] = @ + 1], Append(matched, recruit))
       ELSE CountLoop(frame, color_col, entries, k + 1, counts, matched)

\* game.get(name, "")
GameGet(game, name) == IF name \in DOMAIN game THEN game[name] ELSE <<>>

\* the dict main appends to games for one row of the processed schedule
GameRecord(frame, color_col, game) ==
  LET raw == Strip(GameGet(game, h_Recruits_2027))
      r   == CountLoop(frame, color_col, EnricherEntries(raw), 1,
                       [c \in ColorNames |-> 0], <<>>)
  IN [date          |-> GameGet(game, h_Date_NY),
      school_1      |-> GameGet(game, h_School_1),
      school_2      |-> GameGet(game, h_School_2),
      recruits_2027 |-> r.matched,
      color_counts  |-> r.counts,
      total_tracked |-> r.counts[s_Navy] + r.counts[s_ColumbiaBlue] + r.counts[s_Anthracite]]

RECURSIVE Reverse(_)
Reverse(s) == IF Len(s) = 0 THEN <<>> ELSE Append(Reverse(Tail(s)), Head(s))

\* insertion into a list sorted by total_tracked, after the elements that
\* do not compare greater
RECURSIVE InsertSorted(_, _)
InsertSorted(sorted, g) ==
  IF Len(sorted) = 0 THEN <<g>>
  ELSE IF g.total_tracked < Head(sorted).total_tracked THEN <<g>> \o sorted
  ELSE <<Head(sorted)>> \o InsertSorted(Tail(sorted), g)

RECURSIVE StableSort(_, _)
StableSort(list, k) ==
  IF k = 0 THEN <<>> ELSE InsertSorted(StableSort(list, k - 1), list[k])

\* an ascending stable sort reversed, which turns ties around
SortGames_reversed(games) == Reverse(StableSort(games, Len(games)))

\* games.sort(key=lambda g: g["total_tracked"], reverse=True): list.sort
\* reverses the list, sorts it stably in ascending order and reverses it
\* again
SortGames(games) ==
  LET r == Reverse(games)
  IN Reverse(StableSort(r, Len(r)))

\* the list main writes to data/games.json
EnrichGames(frame, color_col, lines) ==
  LET rows == DictRows(lines)
  IN SortGames([g \in 1..Len(rows) |-> GameRecord(frame, color_col, rows[g])])

----------------------------------------------------------------------------
(* process_data.py, main: the steps of a run *)

NoFile == [exists |-> FALSE, data |-> <<>>]
File(data) == [exists |-> TRUE, data |-> data]

\* _get(row, name): the first non-blank value among the candidate columns
\* (main passes one candidate)
Get(row, cm, name) ==
  LET actual == ColMapGet(cm, name)
  IN IF Truthy(actual) /\ actual \in DOMAIN row THEN Strip(row[actual]) ELSE <<>>

\* row.get(name, "")
RowGet(row, name) == IF name \in DOMAIN row THEN row[name] ELSE <<>>

player_dict(row, cm) ==
  [name           |-> RowGet(row, c_FullName),
   phone          |-> Get(row, cm, c_MobilePhone),
   position       |-> Get(row, cm, c_BoardPosition),
   state          |-> Get(row, cm, c_State),
   color          |-> Get(row, cm, c_ContactSheetColor),
   has_transcript |-> Get(row, cm, c_HasTranscript),
   last_eval      |-> Get(row, cm, c_LastEvaluation),
   last_called    |-> Get(row, cm, c_LastCalled),
   last_call_with |-> Get(row, cm, c_LastCallWith),
   mother_name    |-> RowGet(row, c_MothersFullName),
   mother_phone   |-> Get(row, cm, c_MothersMobilePhone),
   mother_email   |-> Get(row, cm, c_MothersEmail),
   father_name    |-> RowGet(row, c_FathersFullName),
   father_phone   |-> Get(row, cm, c_FathersMobilePhone),
   father_email   |-> Get(row, cm, c_FathersEmail),
   hs_name        |-> Get(row, cm, c_HSName),
   hs_phone       |-> Get(row, cm, c_HSPhone)]

Players(frame, cm) == [i \in 1..Len(frame.rows) |-> player_dict(frame.rows[i], cm)]

IsColorColumn(c) == IsSubstring(s_contact_sheet_color, Lower(c))
IsCalledColumn(c) == IsSubstring(s_call, Lower(c)) /\ IsSubstring(s_last, Lower(c))
IsCallWithColumn(c) == IsSubstring(s_call, Lower(c)) /\ IsSubstring(s_with, Lower(c))

ColorColumn(frame) ==
  FirstColumn(frame.columns,
              {c \in {frame.columns[i] : i \in 1..Len(frame.columns)} : IsColorColumn(c)})

\* df[df[color_col].str.strip().str.lower() == keep_color.lower()]
KeepColor(frame, color_col, keep_color) ==
  SelectMask(frame, [i \in 1..Len(frame.rows) |->
                       Lower(Strip(frame.rows[i][color_col])) = Lower(keep_color)])

\* caller.isin(EXCLUDE_CALLERS) with caller the trimmed, lower-cased column
IsExcludedCaller(v) == Lower(Strip(v)) \in EXCLUDE_CALLERS

\* df[~caller.isin(EXCLUDE_CALLERS)]
ExcludeCallers(frame, call_with_col) ==
  SelectMask(frame, [i \in 1..Len(frame.rows) |->
                       ~IsExcludedCaller(frame.rows[i][call_with_col])])

\* the other program, run before this one starts: it rewrites the processed
\* schedule unless a row of its input makes it raise
PreprocessSchedule ==
  /\ pc = "start"
  /\ ~fs.hs_ran
  /\ LET r == hs_main(fs.sched_in)
     IN fs' = [fs EXCEPT !.hs_ran = TRUE,
                         !.sched_csv = IF r.raised THEN @ ELSE File(r.lines)]
  /\ UNCHANGED <<pc, args, ret, env, df, df_top, col_map, publish>>

\* a run starts: FileNotFoundError when the export is missing
Load ==
  /\ pc = "start"
  /\ IF fs.export.exists
     THEN LET frame == ReadExport(fs.export.data)
          IN /\ df' = frame
             /\ col_map' = frame.columns
             /\ pc' = "loaded"
     ELSE /\ pc' = "aborted"
          /\ UNCHANGED <<df, col_map>>
  /\ UNCHANGED <<args, ret, fs, env, df_top, publish>>

MergeNames ==
  /\ pc = "loaded"
  /\ df' = MergeNamePairs(df, col_map)
  /\ pc' = "merged"
  /\ UNCHANGED <<args, ret, fs, env, df_top, col_map, publish>>

Consolidate ==
  /\ pc = "merged"
  /\ df' = ConsolidateGuardians(df, col_map)
  /\ pc' = "consolidated"
  /\ UNCHANGED <<args, ret, fs, env, df_top, col_map, publish>>

Enrich ==
  /\ pc = "consolidated"
  /\ fs' = IF Truthy(ColorColumn(df)) /\ HasColumn(df, c_FullName) /\ fs.sched_csv.exists
           THEN [fs EXCEPT !.games_json =
                    File(EnrichGames(df, ColorColumn(df), fs.sched_csv.data))]
           ELSE fs
  /\ pc' = "enriched"
  /\ UNCHANGED <<args, ret, env, df, df_top, col_map, publish>>

ColorFilter ==
  /\ pc = "enriched"
  /\ df' = IF Truthy(ColorColumn(df))
           THEN KeepColor(df, ColorColumn(df), MONTH_TO_COLOR[env.month])
           ELSE df
  /\ pc' = "colored"
  /\ UNCHANGED <<args, ret, fs, env, df_top, col_map, publish>>

Filter ==
  /\ pc = "colored"
  /\ LET r == apply_filters(df, FILTERS)
     IN IF r.raised
        THEN pc' = "aborted" /\ UNCHANGED df
        ELSE pc' = "filtered" /\ df' = r.df
  /\ UNCHANGED <<args, ret, fs, env, df_top, col_map, publish>>

Recency ==
  /\ pc = "filtered"
  /\ LET called_col ==
         FirstColumn(df.columns,
                     {c \in {df.columns[i] : i \in 1..Len(df.columns)} : IsCalledColumn(c)})
         n == Len(df.rows)
     IN df' = IF Truthy(called_col)
              THEN add_recency_bucket(df, called_col, RecentDays, env.now)
              ELSE AssignColumn(AssignColumn(df, c_called_dt, [i \in 1..n |-> NaT]),
                                c_called_distance, [i \in 1..n |-> "never"])
  /\ pc' = "bucketed"
  /\ UNCHANGED <<args, ret, fs, env, df_top, col_map, publish>>

Exclude ==
  /\ pc = "bucketed"
  /\ LET call_with_col ==
         FirstColumn(df.columns,
                     {c \in {df.columns[i] : i \in 1..Len(df.columns)} : IsCallWithColumn(c)})
     IN df' = IF Truthy(call_with_col) THEN ExcludeCallers(df, call_with_col) ELSE df
  /\ pc' = "excluded"
  /\ UNCHANGED <<args, ret, fs, env, df_top, col_map, publish>>

Rank ==
  /\ pc = "excluded"
  /\ \E sorted \in sort_by_last_contacted(df) :
       /\ df' = sorted
       /\ df_top' = HeadRows(sorted, TOP_N)
  /\ pc' = "ranked"
  /\ UNCHANGED <<args, ret, fs, env, col_map, publish>>

SaveTopCsv ==
  /\ pc = "ranked"
  /\ fs' = [fs EXCEPT !.top5_csv = File(df_top)]
  /\ pc' = "csv_saved"
  /\ UNCHANGED <<args, ret, env, df, df_top, col_map, publish>>

SaveTopJson ==
  /\ pc = "csv_saved"
  /\ fs' = [fs EXCEPT !.top5_json = File(Players(df_top, col_map))]
  /\ pc' = "top_json_saved"
  /\ UNCHANGED <<args, ret, env, df, df_top, col_map, publish>>

SavePlayersJson ==
  /\ pc = "top_json_saved"
  /\ fs' = [fs EXCEPT !.players_json = File(Players(df, col_map))]
  /\ pc' = "outputs_saved"
  /\ UNCHANGED <<args, ret, env, df, df_top, col_map, publish>>

\* how the three git commands may end: all succeed, one of them exits with
\* a non-zero status (CalledProcessError), or git cannot be started at all
\* (subprocess.run raises FileNotFoundError, an OSError)
GitOutcomes == {"pushed", "add_failed", "commit_failed", "push_failed", "git_missing"}

\* the try block catches CalledProcessError only; after it the run prints
\* its last line and ends
Publish ==
  /\ pc = "outputs_saved"
  /\ \E outcome \in GitOutcomes :
       /\ publish' = outcome
       /\ pc' = IF outcome = "git_missing" THEN "aborted" ELSE "done"
  /\ UNCHANGED <<args, ret, fs, env, df, df_top, col_map>>

Next ==
  \/ PreprocessSchedule
  \/ Load
  \/ MergeNames
  \/ Consolidate
  \/ Enrich
  \/ ColorFilter
  \/ Filter
  \/ Recency
  \/ Exclude
  \/ Rank
  \/ SaveTopCsv
  \/ SaveTopJson
  \/ SavePlayersJson
  \/ Publish

----------------------------------------------------------------------------
(* Calls of one function on its own: the pipeline's state is left idle *)

MainIdle ==
  /\ fs = <<>>
  /\ env = <<>>
  /\ df = <<>>
  /\ df_top = <<>>
  /\ col_map = <<>>
  /\ publish = "none"

----------------------------------------------------------------------------
(* Inputs of the apply_filters calls *)

MaxFilterRows == 2
MaxRules == 2

c_Zip   == <<"Z","i","p">>

FilterFieldVals ==
  { <<>>, <<" ">>, <<"a","b">>, <<" ","A","b"," ">>, <<"a","x","b">>, <<"b">> }

FilterRuleVals ==
  { <<>>, <<"A","B">>, <<"a",".","b">>, <<"b">> }

s_Eq    == <<"E","q">>
s_regex == <<"r","e","g","e","x">>

KnownOps == {s_eq, s_ne, s_contains, s_notnull, s_null}

CondEntries ==
  ({s_eq, s_ne, s_contains, s_Eq} \X FilterRuleVals)
    \cup ({s_notnull, s_null, s_regex} \X {<<>>})

\* a rule's conditions: at most one operator per rule
Conds == {<<>>} \cup {<<e>> : e \in CondEntries}

RECURSIVE SeqsUpTo(_, _)
SeqsUpTo(S, n) ==
  IF n = 0 THEN {<<>>}
  ELSE LET shorter == SeqsUpTo(S, n - 1)
       IN shorter \cup {Append(q, x) : q \in {t \in shorter : Len(t) = n - 1}, x \in S}

\* rule sets are dicts: no column is named twice
RuleSets ==
  { rs \in SeqsUpTo({c_State, c_Zip} \X Conds, MaxRules) :
      \A i, j \in 1..Len(rs) : i # j => rs[i][1] # rs[j][1] }

FilterFrames ==
  { [columns |-> <<c_State>>, rows |-> rows] :
      rows \in SeqsUpTo([{c_State} -> FilterFieldVals], MaxFilterRows) }

InitFilter ==
  /\ MainIdle
  /\ pc = "call"
  /\ args \in [df : FilterFrames, rules : RuleSets]
  /\ ret = [raised |-> FALSE, df |-> [columns |-> <<>>, rows |-> <<>>]]

CallApplyFilters ==
  /\ pc = "call"
  /\ ret' = apply_filters(args.df, args.rules)
  /\ pc' = "returned"
  /\ UNCHANGED <<args, mainvars>>

NextFilter == CallApplyFilters

SpecFilter == InitFilter /\ [][NextFilter]_vars

----------------------------------------------------------------------------
(* Inputs of the add_recency_bucket calls *)

MaxRecencyRows == 2
FirstNowDay == 82853


\* the text of the instant t
TimeStr(t) ==
  IF t % TicksPerDay = 0 THEN NatStr(t \div TicksPerDay)
  ELSE NatStr(t \div TicksPerDay) \o <<"T">> \o NatStr(t % TicksPerDay)

RecencyNows == { FirstNowDay * TicksPerDay + k : k \in 0..TicksPerDay }

\* instants around the cutoff of the earliest `now`, and one of today
RecencyInstants ==
  LET c == (FirstNowDay - RecentDays) * TicksPerDay
  IN { c - TicksPerDay, c - 1, c, c + 1, c + TicksPerDay,
       FirstNowDay * TicksPerDay }

RecencyFieldVals ==
  { <<>>, <<" ">>, <<"n","/","a">>, <<"1","2","T">> }
    \cup { TimeStr(t) : t \in RecencyInstants }

RecencyFrames ==
  { [columns |-> <<c_LastCalled>>, rows |-> rows] :
      rows \in SeqsUpTo([{c_LastCalled} -> RecencyFieldVals], MaxRecencyRows) }

InitRecency ==
  /\ MainIdle
  /\ pc = "call"
  /\ args \in [df : RecencyFrames, now : RecencyNows]
  /\ ret = [columns |-> <<>>, rows |-> <<>>]

CallAddRecencyBucket ==
  /\ pc = "call"
  /\ ret' = add_recency_bucket(args.df, c_LastCalled, RecentDays, args.now)
  /\ pc' = "returned"
  /\ UNCHANGED <<args, mainvars>>

NextRecency == CallAddRecencyBucket

SpecRecency == InitRecency /\ [][NextRecency]_vars

----------------------------------------------------------------------------
(* Inputs of the split_recruits calls *)

MaxFragments == 3

s_claim_list ==
  <<"J","o","h","n"," ","A","."," ","S","m","i","t","h"," ","(","2","0","2","7",")",",",
    " ","M","a","r","y",",",
    " ","J","a","n","e"," ","D","o","e"," ","(","2","0","2","6",")">>

\* comma-separated fragments: with the target year tag, with another year
\* tag, with none, blank, and with a malformed tag
Fragments ==
  { <<"A"," ","B"," ","(","2","0","2","7",")">>,
    <<" ","C"," ","(","2","0","2","7",")"," ">>,
    <<" ","J"," ","D"," ","(","2","0","2","6",")">>,
    <<" ","M">>,
    <<>>,
    <<" ">>,
    <<" ","K"," ","(","2","7",")">> }

RawLists ==
  {s_claim_list} \cup { Join(fr, <<",">>) : fr \in SeqsUpTo(Fragments, MaxFragments) }

InitSplit ==
  /\ MainIdle
  /\ pc = "call"
  /\ args \in [raw : RawLists]
  /\ ret = [recruits |-> <<>>, result |-> <<>>]

\* ret.recruits is the list built by the rejoin loop, ret.result what the
\* function returns
CallSplitRecruits ==
  /\ pc = "call"
  /\ ret' = [recruits |-> Rejoin(args.raw), result |-> split_recruits(args.raw)]
  /\ pc' = "returned"
  /\ UNCHANGED <<args, mainvars>>

NextSplit == CallSplitRecruits

SpecSplit == InitSplit /\ [][NextSplit]_vars

----------------------------------------------------------------------------
(* Inputs of the ranking: add_recency_bucket, sort_by_last_contacted, head *)

MaxRankRows == 6

\* last-called texts: none, the day before the sentinel's day, the
\* sentinel's day, a recent day
RankFieldVals ==
  { <<>>,
    TimeStr((SentinelDay - 1) * TicksPerDay),
    TimeStr(SentinelDay * TicksPerDay),
    TimeStr((FirstNowDay - 1) * TicksPerDay) }

RankFrames ==
  { [columns |-> <<c_LastCalled>>, rows |-> rows] :
      rows \in SeqsUpTo([{c_LastCalled} -> RankFieldVals], MaxRankRows) }

InitRank ==
  /\ MainIdle
  /\ pc = "call"
  /\ args \in [df : RankFrames, now : {FirstNowDay * TicksPerDay + 1}]
  /\ ret = [sorted |-> <<>>, top |-> <<>>]

\* df = sort_by_last_contacted(df); df_top = df.head(TOP_N), on a frame that
\* add_recency_bucket has classified
CallRank ==
  /\ pc = "call"
  /\ \E sorted \in sort_by_last_contacted(
                     add_recency_bucket(args.df, c_LastCalled, RecentDays, args.now)) :
       ret' = [sorted |-> sorted, top |-> HeadRows(sorted, TOP_N)]
  /\ pc' = "returned"
  /\ UNCHANGED <<args, mainvars>>

NextRank == CallRank

SpecRank == InitRank /\ [][NextRank]_vars

----------------------------------------------------------------------------
(* Inputs of the runs *)

MaxRosterRows == 2
MaxGames == 3

v_555 == <<"5","5","5">>

\* the input schedule: game k is "S<k> vs T" at 19 h Chicago time, with a
\* recruit list of its own
ScheduleRow(k, recruits) ==
  [Date     |-> <<"1","0","0">>,
   Time     |-> <<"1","9">>,
   Timezone |-> tz_Chicago,
   Name     |-> <<"S", Digits[k + 1], " ", "v", "s", " ", "T">>,
   Recruits |-> recruits]

RecruitLists ==
  { <<>>,
    <<"A","n","n"," ","L","e","e"," ","(","2","0","2","7",")">>,
    <<"A","n","n"," ","L","e","e"," ","(","2","0","2","7",")",","," ",
      "C","y"," ","O","r","r"," ","(","2","0","2","6",")",","," ",
      "B","o"," ","R","a","y"," ","(","2","0","2","7",")">>,
    <<"M","a","r","y",","," ","J","a","n","e"," ","D","o","e"," ","(","2","0","2","7",")">>,
    <<"A","N","N"," ","L","E","E"," ","(","2","0","2","7",")",","," ",
      "B","o"," ","R","a","y"," ","(","2","0","2","7",")",","," ",
      "C","y"," ","O","r","r"," ","(","2","0","2","7",")",","," ",
      "D","i"," ","F","o","x"," ","(","2","0","2","7",")">> }

Schedules ==
  { [k \in 1..Len(rs) |-> ScheduleRow(k, rs[k])] : rs \in SeqsUpTo(RecruitLists, MaxGames) }

\* a schedule whose time text does not parse
BadSchedule == << [ScheduleRow(1, <<>>) EXCEPT !.Time = <<"7"," ","P","M">>] >>

OneGame == << ScheduleRow(1, <<"A","n","n"," ","L","e","e"," ","(","2","0","2","7",")">>) >>

Files(export, sched_in) ==
  [export       |-> export,
   sched_in     |-> sched_in,
   hs_ran       |-> FALSE,
   sched_csv    |-> NoFile,
   games_json   |-> NoFile,
   top5_csv     |-> NoFile,
   top5_json    |-> NoFile,
   players_json |-> NoFile]

Export(header, records) == File([header |-> header, records |-> records])

\* rosters for the consolidation: one record, each parent slot with or
\* without a name, a phone and a guardian
ParentNames(first, last) == { <<<<>>, <<>>>>, <<<<" ">>, <<>>>>, <<first, last>> }

ConsolidationRecords ==
  { << m[1], m[2], mp, g1, g1p, f[1], f[2], fp, g2, g2p, v_555 >> :
      m   \in ParentNames(<<"A","n","n">>, <<"L","e","e">>),
      mp  \in { <<>>, <<"5">> },
      g1  \in { <<>>, <<" ","G","i","a"," ">> },
      g1p \in { <<>>, <<"7">> },
      f   \in { <<<<>>, <<>>>>, <<<<"B","o">>, <<"R","a","y">>>> },
      fp  \in { <<>>, <<"6">> },
      g2  \in { <<>>, <<"H","a","l">> },
      g2p \in { <<"8">> } }

ConsolidationHeader ==
  << c_MothersFirstName, c_MothersLastName, c_MothersMobilePhone, c_PG1Name, c_PG1Phone,
     c_FathersFirstName, c_FathersLastName, c_FathersMobilePhone, c_PG2Name, c_PG2Phone,
     c_MobilePhone >>

\* the same export without one of its columns
WithoutColumn(file, col) ==
  LET keep == {k \in 1..Len(file.header) : file.header[k] # col}
      Pick(s) == FilterSeq([k \in 1..Len(s) |-> <<k, s[k]>>],
                           {<<k, s[k]>> : k \in (1..Len(s)) \ keep})
      Vals(s) == [k \in 1..Len(Pick(s)) |-> Pick(s)[k][2]]
  IN [header  |-> Vals(file.header),
      records |-> [i \in 1..Len(file.records) |-> Vals(file.records[i])]]

ConsolidationExports ==
  LET full == { [header |-> ConsolidationHeader, records |-> <<r>>] :
                  r \in ConsolidationRecords }
  IN { File(x) : x \in full }
       \cup { File(WithoutColumn(x, c_PG1Phone)) : x \in full }
       \cup { File(WithoutColumn(x, c_PG1Name)) : x \in full }

\* rosters for the exclusion of callers
CallerVals ==
  { <<>>,
    <<"C","o","a","c","h"," ","T","y">>,
    <<"A","l","e","x","a","n","d","r","a"," ","B","a","s","s","e","t","t","i">>,
    <<" ","a","l","e","x","a","n","d","r","a"," ","b","a","s","s","e","t","t","i"," ">>,
    <<"K","i","z","m","a","h","r"," ","G","r","e","l","l">>,
    <<"k","i","z","m","a","h","r"," ","g","r","e","l","l">> }

CallerRecords ==
  { << <<"A","n","n"," ","L","e","e">>, v_555, called, caller >> :
      called \in { <<>>, TimeStr((FirstNowDay - 1) * TicksPerDay) },
      caller \in CallerVals }

CallerExports ==
  { Export(<<c_FullName, c_MobilePhone, c_LastCalled, c_LastCallWith>>, rs) :
      rs \in SeqsUpTo(CallerRecords, MaxRosterRows) }
    \cup { Export(<<c_FullName, c_MobilePhone, c_LastCalled>>,
                  << << <<"A","n","n"," ","L","e","e">>, v_555, <<>> >> >>) }

RunEnv == [now |-> FirstNowDay * TicksPerDay + 1, month |-> 11]

InitRun(exports, schedules) ==
  /\ pc = "start"
  /\ args = <<>>
  /\ ret = <<>>
  /\ env = RunEnv
  /\ df = [columns |-> <<>>, rows |-> <<>>]
  /\ df_top = [columns |-> <<>>, rows |-> <<>>]
  /\ col_map = <<>>
  /\ publish = "none"
  /\ \E e \in exports \cup {NoFile}, s \in schedules : fs = Files(e, s)

\* runs over the consolidation and exclusion rosters
Init == InitRun(ConsolidationExports \cup CallerExports, {OneGame})

Spec == Init /\ [][Next]_vars

\* the roster of the enrichment runs: Mary is a recruit of her own, Di Fox
\* has a color that is not tracked, the last row has no phone
EnrichRoster ==
  Export(<<c_FirstName, c_LastName, c_ContactSheetColor, c_MobilePhone, c_LastCalled>>,
         << << <<"A","n","n">>, <<"L","e","e">>, s_Navy, v_555, <<>> >>,
            << <<"B","o">>, <<"R","a","y">>, s_ColumbiaBlue, v_555, <<>> >>,
            << <<"C","y">>, <<"O","r","r">>, s_Anthracite, v_555, <<>> >>,
            << <<"M","a","r","y">>, <<>>, s_Navy, v_555, <<>> >>,
            << <<"D","i">>, <<"F","o","x">>, <<"G","o","l","d">>, v_555, <<>> >>,
            << <<"J","a","n","e">>, <<"D","o","e">>, s_ColumbiaBlue, <<>>, <<>> >> >>)

InitEnrich == InitRun({EnrichRoster}, Schedules \cup {BadSchedule})

SpecEnrich == InitEnrich /\ [][Next]_vars

----------------------------------------------------------------------------
(* Claims about apply_filters *)

RuleEntries(rules) ==
  UNION { {<<rules[j][1], rules[j][2][k][1], rules[j][2][k][2]>> :
             k \in 1..Len(rules[j][2])} : j \in 1..Len(rules) }

AllOpsKnown(rules) == \A e \in RuleEntries(rules) : Lower(e[2]) \in KnownOps

\* what a rule (column, operator, value) asks of a trimmed field value:
\* comparison ignoring case, contains as substring containment
Satisfies(op, val, v) ==
  LET o == Lower(op)
  IN IF o = s_eq THEN Lower(v) = Lower(val)
     ELSE IF o = s_ne THEN Lower(v) # Lower(val)
     ELSE IF o = s_contains THEN IsSubstring(Lower(val), Lower(v))
     ELSE IF o = s_notnull THEN Len(v) > 0
     ELSE Len(v) = 0

RowPasses(frame, rules, row) ==
  /\ \A j \in 1..Len(rules) : HasColumn(frame, rules[j][1])
  /\ \A e \in RuleEntries(rules) : Satisfies(e[2], e[3], Strip(row[e[1]]))

RECURSIVE KeepRows(_, _, _, _)
KeepRows(frame, rules, rows, i) ==
  IF i > Len(rows) THEN <<>>
  ELSE (IF RowPasses(frame, rules, rows[i]) THEN <<rows[i]>> ELSE <<>>)
         \o KeepRows(frame, rules, rows, i + 1)

\* C1: with every operator among eq, ne, contains, notnull, null,
\* apply_filters returns exactly the records, in their original order, whose
\* trimmed field value satisfies every rule ignoring case (contains being
\* substring containment); an empty rule set returns the records unchanged
\* and a rule naming a column the records lack makes the result empty.
C1_FilterExact ==
  (pc = "returned" /\ AllOpsKnown(args.rules)) =>
     /\ ~ret.raised
     /\ ret.df.columns = args.df.columns
     /\ ret.df.rows = KeepRows(args.df, args.rules, args.df.rows, 1)
     /\ (Len(args.rules) = 0 => ret.df = args.df)
     /\ ((\E j \in 1..Len(args.rules) : ~HasColumn(args.df, args.rules[j][1]))
           => ret.df.rows = <<>>)

\* C1, the part the code keeps: the same statement for rule sets that do not
\* use contains, or whose contains value has no "." in it.
NoPatternChars(rules) ==
  \A e \in RuleEntries(rules) :
     Lower(e[2]) = s_contains => \A i \in 1..Len(e[3]) : e[3][i] # "."

C1_FilterExactLiteral ==
  (pc = "returned" /\ AllOpsKnown(args.rules) /\ NoPatternChars(args.rules)) =>
     /\ ~ret.raised
     /\ ret.df.rows = KeepRows(args.df, args.rules, args.df.rows, 1)

\* C2: a non-empty rule set holding an operator outside eq, ne, contains,
\* notnull, null ends the call in an error, whatever the records are and
\* whether or not the rule's column exists.
C2_UnknownOpRaises ==
  (pc = "returned" /\ Len(args.rules) > 0 /\ ~AllOpsKnown(args.rules)) =>
     ret.raised

\* C2, the part the code keeps: the error is raised when the column of the
\* first rule holding such an operator exists and no earlier rule did.
C2_UnknownOpOnPresentColumnRaises ==
  (pc = "returned"
     /\ \E e \in RuleEntries(args.rules) :
           Lower(e[2]) \notin KnownOps /\ HasColumn(args.df, e[1])) =>
     ret.raised


----------------------------------------------------------------------------
(* Claims about add_recency_bucket *)

\* the cutoff of a call at `now`: now truncated to the UTC day, less 365 days
CutoffOf(now) == (now - (now % TicksPerDay)) - 365 * TicksPerDay

\* a field that is a timestamp text of the model's input set
IsTimeText(v) == \E t \in RecencyInstants : v = TimeStr(t)
TimeOf(v) == CHOOSE t \in RecencyInstants : v = TimeStr(t)

\* C3: after add_recency_bucket with recent_days = 365 every record has one
\* bucket among never, far, recent: never iff the field is empty or no
\* timestamp, recent iff the timestamp is >= cutoff, far otherwise; a
\* timestamp equal to cutoff is recent and one a day earlier is far.
C3_BucketOfEveryRecord ==
  pc = "returned" =>
    /\ Len(ret.rows) = Len(args.df.rows)
    /\ \A i \in 1..Len(ret.rows) :
         LET v == args.df.rows[i][c_LastCalled]
             b == ret.rows[i][c_called_distance]
         IN /\ b \in {"never", "far", "recent"}
            /\ ret.rows[i][c_LastCalled] = v
            /\ (b = "never") <=> ~IsTimeText(v)
            /\ (b = "recent") <=> (IsTimeText(v) /\ TimeOf(v) >= CutoffOf(args.now))
            /\ (b = "far") <=> (IsTimeText(v) /\ TimeOf(v) < CutoffOf(args.now))
            /\ (v = TimeStr(CutoffOf(args.now)) => b = "recent")
            /\ (v = TimeStr(CutoffOf(args.now) - TicksPerDay) => b = "far")

\* a call, not at midnight, with a record exactly at the cutoff and one a
\* day earlier
C3_Witness ==
  /\ pc = "returned"
  /\ args.now % TicksPerDay # 0
  /\ \E i, j \in 1..Len(ret.rows) :
       /\ args.df.rows[i][c_LastCalled] = TimeStr(CutoffOf(args.now))
       /\ ret.rows[i][c_called_distance] = "recent"
       /\ args.df.rows[j][c_LastCalled] = TimeStr(CutoffOf(args.now) - TicksPerDay)
       /\ ret.rows[j][c_called_distance] = "far"

----------------------------------------------------------------------------
(* Claims about split_recruits *)

s_e2027 == <<"J","o","h","n"," ","A","."," ","S","m","i","t","h"," ","(","2","0","2","7",")">>
s_e2026 == <<"M","a","r","y",","," ","J","a","n","e"," ","D","o","e"," ","(","2","0","2","6",")">>

EndsWithYear(s, y) == EndsWith(Strip(s), <<"(">> \o y \o <<")">>)

\* the raw list is three comma-separated fragments: one ending in (2027), one
\* non-blank with no year tag, one ending in (2026)
ClaimShape(raw) ==
  LET fr == SplitOn(raw, <<",">>)
  IN /\ Len(fr) = 3
     /\ EndsWithYear(fr[1], <<"2","0","2","7">>)
     /\ Len(Strip(fr[2])) > 0
     /\ ~EndsWithYearTag(fr[2])
     /\ EndsWithYear(fr[3], <<"2","0","2","6">>)

TwoEntries(raw) ==
  LET fr == SplitOn(raw, <<",">>)
  IN <<Strip(fr[1]), Strip(fr[2]) \o <<",", " ">> \o Strip(fr[3])>>

\* C9 as stated: split_recruits on a list of that shape, such as
\* "John A. Smith (2027), Mary, Jane Doe (2026)", yields exactly the two
\* entries "John A. Smith (2027)" and "Mary, Jane Doe (2026)".
C9_YieldsTwoEntries ==
  (pc = "returned" /\ ClaimShape(args.raw)) =>
     /\ ret.result = TwoEntries(args.raw)
     /\ (args.raw = s_claim_list => ret.result = <<s_e2027, s_e2026>>)

\* C9 amended: the rejoin loop builds exactly those two entries, and the
\* year filter that ends split_recruits keeps only the (2027) one, so the
\* function returns the single entry "John A. Smith (2027)".
C9_RejoinsTwoReturnsOne ==
  (pc = "returned" /\ ClaimShape(args.raw)) =>
     /\ ret.recruits = TwoEntries(args.raw)
     /\ ret.result = <<Strip(SplitOn(args.raw, <<",">>)[1])>>
     /\ (args.raw = s_claim_list =>
           /\ ret.recruits = <<s_e2027, s_e2026>>
           /\ ret.result = <<s_e2027>>)

\* the call on the list of the claim has returned
C9_Witness ==
  /\ pc = "returned"
  /\ args.raw = s_claim_list
  /\ Len(ret.recruits) = 2
  /\ Len(ret.result) = 1

----------------------------------------------------------------------------
(* Claims about the chronological ranking *)

IsNever(row) == row[c_called_distance] = "never"

NeverFirstAscending(rows) ==
  \A i, j \in 1..Len(rows) :
     /\ (IsNever(rows[i]) /\ ~IsNever(rows[j])) => i < j
     /\ (~IsNever(rows[i]) /\ ~IsNever(rows[j]) /\ i < j)
           => rows[i][c_called_dt].t <= rows[j][c_called_dt].t

\* C4: in the ranked output every record with bucket never comes before
\* every record with a real contact timestamp, however old that timestamp
\* is, and the records with timestamps are in ascending order.
C4_NeverBeforeDated ==
  pc = "returned" => NeverFirstAscending(ret.top.rows)

\* C4, the part the code keeps: the same when every timestamp is later
\* than 1900-01-01.
C4_NeverBeforeDatedAfter1900 ==
  (pc = "returned"
     /\ \A i \in 1..Len(ret.sorted.rows) :
           ~IsNever(ret.sorted.rows[i])
              => ret.sorted.rows[i][c_called_dt].t > SentinelDay * TicksPerDay)
    => NeverFirstAscending(ret.top.rows)

----------------------------------------------------------------------------
(* Claims about the runs *)

\* v, trimmed and with letter case ignored, equals an entry of the
\* exclusion list
MatchesExclusionList(v) ==
  \E e \in EXCLUDE_CALLERS : Lower(Strip(v)) = Lower(Strip(e))

CallersOfFrame(frame) ==
  { frame.rows[i][c_LastCallWith] :
      i \in {k \in 1..Len(frame.rows) : c_LastCallWith \in DOMAIN frame.rows[k]} }

CallersOfPlayers(players) == { players[i].last_call_with : i \in 1..Len(players) }

\* the callers that appear in the ranked CSV, the ranked JSON and the full
\* player JSON
OutputCallers ==
  (IF fs.top5_csv.exists THEN CallersOfFrame(fs.top5_csv.data) ELSE {})
    \cup (IF fs.top5_json.exists THEN CallersOfPlayers(fs.top5_json.data) ELSE {})
    \cup (IF fs.players_json.exists THEN CallersOfPlayers(fs.players_json.data) ELSE {})

\* C5: when the roster has a "last call with" column, no record of the
\* ranked output or of the full player output has a value in it that,
\* trimmed and ignoring letter case, equals an entry of EXCLUDE_CALLERS
\* ("alexandra bassetti", "Kizmahr Grell").
C5_NoExcludedCallerInOutputs ==
  \A v \in OutputCallers : ~MatchesExclusionList(v)

\* C5, the part the code keeps: no output record was last called by
\* "alexandra bassetti", the entry of the list that is written in lower case.
C5_LowerCaseEntryExcluded ==
  \A v \in OutputCallers : Lower(Strip(v)) # s_alexandra_bassetti

ParentFields ==
  {c_MothersFullName, c_FathersFullName, c_MothersMobilePhone, c_FathersMobilePhone}

\* C6: the guardian fallback only fills empty targets: a full-name field or
\* a parent phone field that was not empty before the step has the same
\* value after it.
C6_FallbackOnlyFillsEmpty ==
  [][ (pc = "merged" /\ pc' = "consolidated") =>
        \A i \in 1..Len(df.rows) : \A c \in ParentFields \cap DOMAIN df.rows[i] :
           df.rows[i][c] # <<>> => df'.rows[i][c] = df.rows[i][c] ]_vars

\* C6, the part the code keeps: a full name that was not empty is kept, and
\* so is the phone of a parent whose full name was not empty.
C6_NamedParentKept ==
  [][ (pc = "merged" /\ pc' = "consolidated") =>
        \A i \in 1..Len(df.rows) :
           /\ ((c_MothersFullName \in DOMAIN df.rows[i]
                 /\ df.rows[i][c_MothersFullName] # <<>>) =>
                 /\ df'.rows[i][c_MothersFullName] = df.rows[i][c_MothersFullName]
                 /\ df'.rows[i][c_MothersMobilePhone] = df.rows[i][c_MothersMobilePhone])
           /\ ((c_FathersFullName \in DOMAIN df.rows[i]
                 /\ df.rows[i][c_FathersFullName] # <<>>) =>
                 /\ df'.rows[i][c_FathersFullName] = df.rows[i][c_FathersFullName]
                 /\ df'.rows[i][c_FathersMobilePhone] = df.rows[i][c_FathersMobilePhone]) ]_vars

OutputsWritten ==
  /\ fs.top5_csv = File(df_top)
  /\ fs.top5_json = File(Players(df_top, col_map))
  /\ fs.players_json = File(Players(df, col_map))

\* C7: the publishing step is attempted only once the ranked CSV, the
\* ranked JSON and the full player JSON are written; and however it fails,
\* the failure is caught, the written outputs stay as they are and the run
\* reaches its normal end.
C7_PublishFailureNotFatal ==
  publish # "none" => (OutputsWritten /\ pc = "done")

\* C7, the part the code keeps: the outputs are written before the step and
\* stay as written; a git command that exits with an error does not stop
\* the run.
C7_GitErrorNotFatal ==
  /\ publish # "none" => OutputsWritten
  /\ publish \in {"pushed", "add_failed", "commit_failed", "push_failed"} => pc = "done"

\* for every game of games.json, the row of the processed schedule it was
\* built from (the games of the model's schedules differ in their first
\* school)
ScheduleIndex ==
  LET rows    == DictRows(fs.sched_csv.data)
      schools == [k \in 1..Len(rows) |-> rows[k][h_School_1]] \o <<>>
      games   == fs.games_json.data
  IN [g \in 1..Len(games) |->
        CHOOSE k \in 1..Len(schools) : schools[k] = games[g].school_1] \o <<>>

\* C8: in the enriched schedule every game's total_tracked is the sum of
\* its color counters, the games are in non-increasing order of
\* total_tracked, and games with equal total_tracked keep the order they
\* have in the input schedule.
C8_GamesSortedStable ==
  fs.games_json.exists =>
    LET games == fs.games_json.data
        index == ScheduleIndex
    IN /\ Len(games) = Len(index)
       /\ {index[g] : g \in 1..Len(games)} = 1..Len(fs.sched_in)
       /\ \A g \in 1..Len(games) :
            /\ games[g].total_tracked =
                 games[g].color_counts[s_Navy] + games[g].color_counts[s_ColumbiaBlue]
                   + games[g].color_counts[s_Anthracite]
            /\ games[g].total_tracked = Len(games[g].recruits_2027)
       /\ \A g, h \in 1..Len(games) :
            g < h =>
              /\ games[g].total_tracked >= games[h].total_tracked
              /\ (games[g].total_tracked = games[h].total_tracked
                    => index[g] < index[h])

\* the last game of a schedule of three was moved to the front, ahead of
\* two games that tie with tracked recruits
C8_Witness ==
  /\ fs.games_json.exists
  /\ Len(fs.games_json.data) = 3
  /\ ScheduleIndex[1] = 3
  /\ fs.games_json.data[2].total_tracked = fs.games_json.data[3].total_tracked
  /\ fs.games_json.data[3].total_tracked > 0

\* C10: for every raw recruit list, the entries the enricher gets by
\* splitting the Recruits_2027 cell are exactly the entries split_recruits
\* returned before they were joined, also when an entry holds a comma.
C10_RoundTrip ==
  fs.sched_csv.exists =>
    LET rows == DictRows(fs.sched_csv.data)
    IN /\ Len(rows) = Len(fs.sched_in)
       /\ \A g \in 1..Len(rows) :
            EnricherEntries(Strip(GameGet(rows[g], h_Recruits_2027)))
              = split_recruits(fs.sched_in[g].Recruits)

\* C10, the part the code keeps: the round trip for the lists none of whose
\* entries holds ", ".
C10_RoundTripWithoutCommas ==
  fs.sched_csv.exists =>
    LET rows == DictRows(fs.sched_csv.data)
    IN \A g \in 1..Len(rows) :
          (\A k \in 1..Len(split_recruits(fs.sched_in[g].Recruits)) :
              ~IsSubstring(<<",", " ">>, split_recruits(fs.sched_in[g].Recruits)[k]))
            => EnricherEntries(Strip(GameGet(rows[g], h_Recruits_2027)))
                 = split_recruits(fs.sched_in[g].Recruits)

====
